---- MODULE Spec2Model ----
(***************************************************************************)
(* Model of src/src/copy-issue-labels.ts: PullRequestLabelManager, which   *)
(* copies priority / classification / effort labels from the issues a pull *)
(* request closes onto the pull request.                                   *)
(*                                                                         *)
(* Representation:                                                         *)
(*   - a JavaScript string that the code scans (the PR body, a keyword) is *)
(*     a sequence of one-character strings; a label name is a TLA+ string  *)
(*     (the code only compares label names for equality);                  *)
(*   - a JavaScript Set<string> is a duplicate-free sequence in insertion  *)
(*     order (the order Set iteration, and therefore setDiff, observes);   *)
(*   - undefined is the value Undefined.                                   *)
(***************************************************************************)
EXTENDS Integers, Sequences, FiniteSets, TLC

\* Longest explicit options.pullNumbers list explored.
MaxPulls == 2

\* Most labels on a pull request, and in an issue-label union, when the
\* label computation is explored on its own over all label sets.
MaxLabels == 3

\* The value undefined where a label name (a string) is expected.
Undefined == "<undefined>"

\* a ?? b for a string a
Coalesce(a, b) == IF a = Undefined THEN b ELSE a

\* An optional property or a nullable value that is not a string is a
\* sequence of length 0 (absent, undefined, null) or 1 (present).
None == <<>>
Some(x) == <<x>>

\* opt ?? d
OrElse(opt, d) == IF opt = None THEN d ELSE opt[1]

----------------------------------------------------------------------------
\* Characters and strings

UpperChars == <<"A","B","C","D","E","F","G","H","I","J","K","L","M",
                "N","O","P","Q","R","S","T","U","V","W","X","Y","Z">>
LowerChars == <<"a","b","c","d","e","f","g","h","i","j","k","l","m",
                "n","o","p","q","r","s","t","u","v","w","x","y","z">>
DigitChars == <<"0","1","2","3","4","5","6","7","8","9">>

Range(s) == {s[i] : i \in DOMAIN s}

\* \d of the regular expressions
DigitClass == Range(DigitChars)

\* \w of the regular expressions: [A-Za-z0-9_]
WordClass == Range(UpperChars) \cup Range(LowerChars) \cup Range(DigitChars) \cup {"_"}

\* String.prototype.toLowerCase, one character
LowerChar(c) ==
    IF \E i \in DOMAIN UpperChars : UpperChars[i] = c
    THEN LowerChars[CHOOSE i \in DOMAIN UpperChars : UpperChars[i] = c]
    ELSE c

toLowerCase(s) == [i \in DOMAIN s |-> LowerChar(s[i])]

DigitValue(c) == (CHOOSE i \in DOMAIN DigitChars : DigitChars[i] = c) - 1

\* parseInt(x, 10) of a non-empty string of decimal digits
RECURSIVE parseInt(_)
parseInt(x) ==
    IF Len(x) = 0 THEN 0
    ELSE 10 * parseInt(SubSeq(x, 1, Len(x) - 1)) + DigitValue(x[Len(x)])

GITHUB_CLOSE_ISSUE_KEYWORDS == <<
    <<"c","l","o","s","e">>,
    <<"c","l","o","s","e","s">>,
    <<"c","l","o","s","e","d">>,
    <<"f","i","x">>,
    <<"f","i","x","e","s">>,
    <<"f","i","x","e","d">>,
    <<"r","e","s","o","l","v","e">>,
    <<"r","e","s","o","l","v","e","s">>,
    <<"r","e","s","o","l","v","e","d">> >>

\* github.context.repo
owner == <<"o">>
repo == <<"r">>

----------------------------------------------------------------------------
\* Regular expression matching: /(\w+) <literal>(\d+)/g
\* In <literal> the character "." matches any character but a line
\* terminator (the expressions have no s flag), every other character
\* matches itself.

\* The line terminators: \n, \r, U+2028 and U+2029.  The last two, which a
\* TLA+ string cannot hold, are written as their escapes and stand for one
\* character each.
LineTerminators == {"\n", "\r", "\\u2028", "\\u2029"}

\* The first index >= i that is past the end of text or holds a character
\* outside the class cls: the end (exclusive) of the greedy run starting at i.
RECURSIVE RunEnd(_, _, _)
RunEnd(text, i, cls) ==
    IF i > Len(text) \/ text[i] \notin cls THEN i ELSE RunEnd(text, i + 1, cls)

LiteralAt(text, i, lit) ==
    /\ i + Len(lit) - 1 <= Len(text)
    /\ \A k \in DOMAIN lit :
          IF lit[k] = "."
          THEN text[i + k - 1] \notin LineTerminators
          ELSE text[i + k - 1] = lit[k]

\* Does the expression match with its first character at index i?  \w+ is
\* greedy and must be followed by a space, which is no \w: only the maximal
\* run can match.
MatchesAt(text, i, lit) ==
    LET j == RunEnd(text, i, WordClass) IN
    /\ j > i
    /\ j <= Len(text)
    /\ text[j] = " "
    /\ LiteralAt(text, j + 1, lit)
    /\ j + 1 + Len(lit) <= Len(text)
    /\ text[j + 1 + Len(lit)] \in DigitClass

\* m[1], m[2] and the index after the match
MatchAt(text, i, lit) ==
    LET j == RunEnd(text, i, WordClass)
        d == j + 1 + Len(lit)
        e == RunEnd(text, d, DigitClass) IN
    [m1 |-> SubSeq(text, i, j - 1), m2 |-> SubSeq(text, d, e - 1), end |-> e]

\* text.matchAll(regex) from lastIndex on: leftmost match, then continue
\* after it.
RECURSIVE matchAll(_, _, _)
matchAll(text, lit, lastIndex) ==
    LET starts == {i \in lastIndex..Len(text) : MatchesAt(text, i, lit)} IN
    IF starts = {} THEN <<>>
    ELSE LET i == CHOOSE s \in starts : \A t \in starts : s <= t
             m == MatchAt(text, i, lit) IN
         <<m>> \o matchAll(text, lit, m.end)

hashRegex == <<"#">>

urlRegex ==
    <<"h","t","t","p","s",":","/","/","g","i","t","h","u","b",".","c","o","m","/">>
    \o owner \o <<"/">> \o repo \o <<"/","i","s","s","u","e","s","/">>

includes(list, x) == \E i \in DOMAIN list : list[i] = x

issuesClosedAfterAnyWord(text, regex) ==
    LET ms == matchAll(text, regex, 1) IN
    [i \in DOMAIN ms |-> ms[i].m2]

issuesClosed(text, regex) ==
    LET ms == matchAll(text, regex, 1)
        kept == SelectSeq(ms, LAMBDA m : includes(GITHUB_CLOSE_ISSUE_KEYWORDS, toLowerCase(m.m1))) IN
    [i \in DOMAIN kept |-> kept[i].m2]

findReferencedIssues(text) ==
    LET all == issuesClosed(text, hashRegex) \o issuesClosed(text, urlRegex) IN
    [i \in DOMAIN all |-> parseInt(all[i])]

----------------------------------------------------------------------------
\* JavaScript Set<string> as a duplicate-free sequence in insertion order

SetHas(s, x) == \E i \in DOMAIN s : s[i] = x

SetAdd(s, x) == IF SetHas(s, x) THEN s ELSE Append(s, x)

SetDelete(s, x) == SelectSeq(s, LAMBDA y : y # x)

\* new Set(array)
RECURSIVE NewSet(_)
NewSet(arr) ==
    IF Len(arr) = 0 THEN <<>>
    ELSE SetAdd(NewSet(SubSeq(arr, 1, Len(arr) - 1)), arr[Len(arr)])

\* array.flat() of an array of arrays
RECURSIVE Flat(_)
Flat(arrs) == IF Len(arrs) = 0 THEN <<>> ELSE Head(arrs) \o Flat(Tail(arrs))

\* list.find(l => labels.has(l)): the first element of list that the set
\* holds, undefined when there is none
find(list, labels) ==
    IF \E i \in DOMAIN list : SetHas(labels, list[i])
    THEN list[CHOOSE i \in DOMAIN list :
                 /\ SetHas(labels, list[i])
                 /\ \A k \in 1..(i - 1) : ~SetHas(labels, list[k])]
    ELSE Undefined

----------------------------------------------------------------------------
\* State

VARIABLES
    options,               \* the options argument of the constructor
    supplied,              \* options.pullNumbers as the caller passed it
    payloadPull,           \* github.context.payload.pull_request?.number
    issues,                \* the repository's issues: number -> raw labels
    pc,                    \* where the program is
    priorityLabels,        \* this.priorityLabels
    classificationLabels,  \* this.classificationLabels
    effortLabels,          \* this.effortLabels
    pullNumbers,           \* this.pullNumbers
    idx,                   \* position of doPulls' for-of loop in pullNumbers
    cur,                   \* locals of the running copyLabelsFromReferencedIssues
    calls,                 \* addLabels / removeLabel requests it dispatched
    earlier,               \* requests of earlier reconciliations, still pending
    reconciled,            \* pull numbers copyLabelsFromReferencedIssues was called with
    completed              \* pull numbers for which it returned normally

vars == <<options, supplied, payloadPull, issues, pc, priorityLabels, classificationLabels,
          effortLabels, pullNumbers, idx, cur, calls, earlier, reconciled, completed>>

config == <<options, supplied, payloadPull, issues>>
fields == <<priorityLabels, classificationLabels, effortLabels, pullNumbers>>

----------------------------------------------------------------------------
\* Inputs: what the caller and the repository may hold

PullNumbers == {1, 2}
IssueNumbers == {5, 7}

RECURSIVE SeqsUpTo(_, _)
SeqsUpTo(S, n) ==
    IF n = 0 THEN {<<>>}
    ELSE LET shorter == SeqsUpTo(S, n - 1) IN
         shorter \cup {Append(q, x) : q \in shorter, x \in S}

\* A raw label of the REST API: a string, or an object with an optional name.
StringLabel(n) == [isString |-> TRUE, value |-> n]
ObjectLabel(n) == [isString |-> FALSE, name |-> Some(n)]
NamelessLabel == [isString |-> FALSE, name |-> None]

PriorityOptions == {None, Some(<<>>)}

\* With a list in another order than the default's
PriorityListOptions == PriorityOptions \cup {Some(<<"p1", "p0">>)}

PullNumbersOptions == {None} \cup {Some(q) : q \in SeqsUpTo(PullNumbers, MaxPulls)}

PayloadOptions == {None, Some(1)}

Issue5Labels == {
    <<ObjectLabel("p0"), ObjectLabel("bug")>>,
    <<>> }

Issue7Labels == {
    <<ObjectLabel("effort/large")>>,
    <<StringLabel("p1"), ObjectLabel("feature-request"), ObjectLabel("effort/small"), NamelessLabel>> }

\* "Fixes #5 and #7"
BodyFixesAnd ==
    <<"F","i","x","e","s"," ","#","5"," ","a","n","d"," ","#","7">>
\* "Mentions #5"
BodyMentions ==
    <<"M","e","n","t","i","o","n","s"," ","#","5">>
\* "fix https://github.com/o/r/issues/7 CLOSED #5"
BodyUrlThenHash ==
    <<"f","i","x"," ","h","t","t","p","s",":","/","/","g","i","t","h","u","b",".","c","o","m",
      "/","o","/","r","/","i","s","s","u","e","s","/","7"," ","C","L","O","S","E","D"," ","#","5">>
\* "resolve #12"
BodyResolveMissing ==
    <<"r","e","s","o","l","v","e"," ","#","1","2">>

\* "fix https://github\ncom/o/r/issues/7": a line terminator where the
\* expression has its "."
BodyUrlLineBreak ==
    <<"f","i","x"," ","h","t","t","p","s",":","/","/","g","i","t","h","u","b","\n","c","o","m",
      "/","o","/","r","/","i","s","s","u","e","s","/","7">>

PullBodies == {None, Some(BodyFixesAnd), Some(BodyMentions),
               Some(BodyUrlThenHash), Some(BodyResolveMissing), Some(BodyUrlLineBreak)}

PullLabels == {
    <<>>,
    <<ObjectLabel("p2"), ObjectLabel("feature-request")>>,
    <<ObjectLabel("p0"), ObjectLabel("p1")>>,
    <<ObjectLabel("p0"), ObjectLabel("bug")>>,
    <<ObjectLabel("p1"), NamelessLabel, ObjectLabel("needs-review")>> }

\* What pulls.get may answer: { data: { body, labels } }
PullResponses == [body : PullBodies, labels : PullLabels]

----------------------------------------------------------------------------
\* The label algebra of copy-issue-labels.ts

Last(list) == IF Len(list) = 0 THEN Undefined ELSE list[Len(list)]

\* pull.data.labels.map((l) => l.name ?? '')
pullLabelName(l) == OrElse(l.name, "")

\* issue.data.labels.map((l) => typeof l === 'string' ? l : l.name ?? '')
issueLabelName(l) == IF l.isString THEN l.value ELSE OrElse(l.name, "")

highestPriorityLabel(issueLabels, pullLabels) ==
    Coalesce(Coalesce(find(priorityLabels, issueLabels),
                      find(priorityLabels, pullLabels)),
             Last(priorityLabels))

classification(labels) == find(classificationLabels, labels)

largestEffort(labels) == find(effortLabels, labels)

\* for (const r of remove) { labels.delete(r); }
RECURSIVE DeleteEach(_, _)
DeleteEach(labels, remove) ==
    IF Len(remove) = 0 THEN labels
    ELSE DeleteEach(SetDelete(labels, Head(remove)), Tail(remove))

replaceLabelsKeepingOld(labels, remove, replace) ==
    IF replace # Undefined THEN SetAdd(labels, replace) ELSE labels

replaceLabels(labels, remove, replace) ==
    IF replace # Undefined
    THEN SetAdd(DeleteEach(labels, remove), replace)
    ELSE labels

setDiffNoMembershipTest(xs, ys) == [adds |-> ys, removes |-> xs]

setDiff(xs, ys) ==
    [adds |-> SelectSeq(ys, LAMBDA y : ~SetHas(xs, y)),
     removes |-> SelectSeq(xs, LAMBDA x : ~SetHas(ys, x))]

isEmptyDiffInverted(diff) == Len(diff.adds) + Len(diff.removes) > 0

isEmptyDiff(diff) == Len(diff.adds) + Len(diff.removes) = 0

\* An array is an object, and every object is truthy, the empty array too.
Truthy(array) == TRUE

\* Lines 95-98: the new label set of a pull request
newLabels(pullLabels, issueLabels) ==
    LET a == replaceLabels(pullLabels, priorityLabels,
                           highestPriorityLabel(issueLabels, pullLabels))
        b == replaceLabels(a, classificationLabels, classification(issueLabels))
    IN  replaceLabels(b, effortLabels, largestEffort(issueLabels))

----------------------------------------------------------------------------
\* Initial state: the arguments and the repository, nothing constructed yet

NoLocals ==
    [pullNumber |-> 0, body |-> None, references |-> <<>>, pullLabels |-> <<>>,
     fetches |-> <<>>, issueLabels |-> <<>>, newPullLabels |-> <<>>,
     diff |-> [adds |-> <<>>, removes |-> <<>>], computed |-> FALSE]

Init ==
    /\ options \in [priorityLabels : PriorityOptions,
                    classificationLabels : {None},
                    effortLabels : {None},
                    pullNumbers : PullNumbersOptions]
    /\ supplied = options.pullNumbers
    /\ payloadPull \in PayloadOptions
    /\ issues \in {[n \in IssueNumbers |-> IF n = 5 THEN l5 ELSE l7] :
                       l5 \in Issue5Labels, l7 \in Issue7Labels}
    /\ pc = "new"
    /\ priorityLabels = <<>>
    /\ classificationLabels = <<>>
    /\ effortLabels = <<>>
    /\ pullNumbers = <<>>
    /\ idx = 0
    /\ cur = NoLocals
    /\ calls = <<>>
    /\ earlier = <<>>
    /\ reconciled = <<>>
    /\ completed = <<>>

----------------------------------------------------------------------------
\* constructor (lines 47-68)

selectedPullNumbers(opts, payload) ==
    LET base == IF opts.pullNumbers # None /\ Len(opts.pullNumbers[1]) > 0
                THEN opts.pullNumbers[1]
                ELSE <<>>
    IN  IF payload # None THEN Append(base, payload[1]) ELSE base

\* A non-empty explicit list and this.pullNumbers are the same array (line
\* 61), so the push of line 66 extends the caller's options.pullNumbers too.
optionsAfterConstruction(opts, payload) ==
    IF opts.pullNumbers # None /\ Len(opts.pullNumbers[1]) > 0
    THEN [opts EXCEPT !.pullNumbers = Some(selectedPullNumbers(opts, payload))]
    ELSE opts

Construct ==
    /\ pc = "new"
    /\ options' = optionsAfterConstruction(options, payloadPull)
    /\ priorityLabels' = OrElse(options.priorityLabels, <<"p0", "p1", "p2">>)
    /\ classificationLabels' = OrElse(options.classificationLabels, <<"bug", "feature-request">>)
    /\ effortLabels' = OrElse(options.effortLabels,
                              <<"effort/large", "effort/medium", "effort/small">>)
    /\ pullNumbers' = selectedPullNumbers(options, payloadPull)
    /\ pc' = "constructed"
    /\ UNCHANGED <<supplied, payloadPull, issues, idx, cur, calls, earlier, reconciled, completed>>

----------------------------------------------------------------------------
\* doPulls (lines 70-74)

DoPulls ==
    /\ pc = "constructed"
    /\ idx' = 1
    /\ pc' = "doPulls"
    /\ UNCHANGED <<config, fields, cur, calls, earlier, reconciled, completed>>

\* One iteration of the loop: copyLabelsFromReferencedIssues(pull) runs up to
\* its first await, with pulls.get requested (lines 72, 76-83).  Requests of
\* the reconciliation before that nothing awaited stay in flight.
CopyLabelsFromReferencedIssues ==
    /\ pc = "doPulls"
    /\ idx <= Len(pullNumbers)
    /\ cur' = [NoLocals EXCEPT !.pullNumber = pullNumbers[idx]]
    /\ calls' = <<>>
    /\ earlier' = earlier \o SelectSeq(calls, LAMBDA c : c.status = "pending")
    /\ reconciled' = Append(reconciled, pullNumbers[idx])
    /\ pc' = "pulls.get"
    /\ UNCHANGED <<config, fields, idx, completed>>

\* The loop is exhausted: doPulls' promise is fulfilled.
DoPullsReturn ==
    /\ pc = "doPulls"
    /\ idx > Len(pullNumbers)
    /\ pc' = "done"
    /\ UNCHANGED <<config, fields, idx, cur, calls, earlier, reconciled, completed>>

\* Nothing catches a rejection: the await of line 72 throws out of the loop
\* and doPulls' promise is rejected.
Rejected ==
    /\ pc' = "rejected"
    /\ UNCHANGED <<config, fields, idx, cur, calls, earlier, reconciled, completed>>

\* copyLabelsFromReferencedIssues returns; the loop moves on.
Returned ==
    /\ completed' = Append(completed, cur.pullNumber)
    /\ idx' = idx + 1
    /\ pc' = "doPulls"

----------------------------------------------------------------------------
\* copyLabelsFromReferencedIssues (lines 76-121)

Pending == [status |-> "pending", value |-> <<>>]

\* pulls.get is fulfilled: lines 85-91, up to the await of Promise.all, with
\* one issues.get requested per reference.
PullsGetFulfilled ==
    /\ pc = "pulls.get"
    /\ \E resp \in PullResponses :
        LET references == findReferencedIssues(OrElse(resp.body, <<>>))
            names == [i \in DOMAIN resp.labels |-> pullLabelName(resp.labels[i])]
        IN  cur' = [cur EXCEPT !.body = resp.body,
                               !.references = references,
                               !.pullLabels = NewSet(names),
                               !.fetches = [i \in DOMAIN references |-> Pending]]
    /\ pc' = "issues.get"
    /\ UNCHANGED <<config, fields, idx, calls, earlier, reconciled, completed>>

\* pulls.get fails (not found, network, authentication).
PullsGetRejected ==
    /\ pc = "pulls.get"
    /\ Rejected

\* issueLabels(issue) of one reference is fulfilled (lines 139-146).
IssuesGetFulfilled(i) ==
    /\ pc = "issues.get"
    /\ cur.fetches[i].status = "pending"
    /\ cur.references[i] \in DOMAIN issues
    /\ LET raw == issues[cur.references[i]]
           names == [k \in DOMAIN raw |-> issueLabelName(raw[k])]
       IN  cur' = [cur EXCEPT !.fetches[i] = [status |-> "fulfilled", value |-> names]]
    /\ UNCHANGED <<config, fields, pc, idx, calls, earlier, reconciled, completed>>

\* issues.get of one reference fails (the issue does not exist, network):
\* Promise.all rejects and so does copyLabelsFromReferencedIssues.
IssuesGetRejected(i) ==
    /\ pc = "issues.get"
    /\ cur.fetches[i].status = "pending"
    /\ Rejected

AllFetched == \A i \in DOMAIN cur.fetches : cur.fetches[i].status = "fulfilled"

\* Lines 95-100 for a given issue-label union
Reconciled(issueLabels) ==
    LET newPullLabels == newLabels(cur.pullLabels, issueLabels)
    IN  [cur EXCEPT !.issueLabels = issueLabels,
                    !.newPullLabels = newPullLabels,
                    !.diff = setDiff(cur.pullLabels, newPullLabels),
                    !.computed = TRUE]

\* Lines 89-100 once Promise.all is fulfilled
Computed ==
    Reconciled(NewSet(Flat([i \in DOMAIN cur.fetches |-> cur.fetches[i].value])))

\* Line 104: nothing to change
ReturnOnEmptyDiff ==
    /\ pc = "issues.get"
    /\ AllFetched
    /\ isEmptyDiff(Computed.diff)
    /\ cur' = Computed
    /\ Returned
    /\ UNCHANGED <<config, fields, calls, earlier, reconciled>>

\* The requests lines 107-120 send.  addLabels' promise is an element of the
\* array given to Promise.all; forEach returns undefined, so the promises of
\* the removeLabel requests are not.
mutationCalls(pullNumber, diff) ==
    (IF Truthy(diff.adds)
     THEN << [op |-> "addLabels", issue_number |-> pullNumber, labels |-> diff.adds,
              awaited |-> TRUE, status |-> "pending"] >>
     ELSE <<>>)
    \o
    (IF Truthy(diff.removes)
     THEN [k \in DOMAIN diff.removes |->
              [op |-> "removeLabel", issue_number |-> pullNumber,
               labels |-> <<diff.removes[k]>>, awaited |-> FALSE, status |-> "pending"]]
     ELSE <<>>)

\* Lines 106-120, up to the await of Promise.all
DispatchMutations ==
    /\ pc = "issues.get"
    /\ AllFetched
    /\ ~isEmptyDiff(Computed.diff)
    /\ cur' = Computed
    /\ calls' = mutationCalls(cur.pullNumber, Computed.diff)
    /\ UNCHANGED earlier
    /\ pc' = "mutations"
    /\ UNCHANGED <<config, fields, idx, reconciled, completed>>

AwaitedPending == {k \in DOMAIN calls : calls[k].awaited /\ calls[k].status = "pending"}

\* An awaited request is fulfilled; when it was the last one, Promise.all is
\* fulfilled and copyLabelsFromReferencedIssues returns.
AwaitedFulfilled(k) ==
    /\ pc = "mutations"
    /\ k \in AwaitedPending
    /\ calls' = [calls EXCEPT ![k].status = "fulfilled"]
    /\ UNCHANGED earlier
    /\ IF AwaitedPending = {k}
       THEN Returned
       ELSE UNCHANGED <<pc, idx, completed>>
    /\ UNCHANGED <<config, fields, cur, reconciled>>

\* An awaited request fails: Promise.all rejects.
AwaitedRejected(k) ==
    /\ pc = "mutations"
    /\ k \in AwaitedPending
    /\ calls' = [calls EXCEPT ![k].status = "rejected"]
    /\ UNCHANGED earlier
    /\ pc' = "rejected"
    /\ UNCHANGED <<config, fields, idx, cur, reconciled, completed>>

\* A request nothing awaits settles, whenever the gateway answers.  No code
\* observes the outcome.  A rejection is an unhandled rejection: what the
\* process does with it is the runtime's choice (node >= 15 terminates the
\* process by default, older versions and a process-level handler go on),
\* which the source does not fix, so either may happen.
UnawaitedSettled(k) ==
    /\ pc # "terminated"
    /\ ~calls[k].awaited
    /\ calls[k].status = "pending"
    /\ \E outcome \in {"fulfilled", "rejected"} :
        /\ calls' = [calls EXCEPT ![k].status = outcome]
        /\ IF outcome = "rejected"
           THEN pc' \in {pc, "terminated"}
           ELSE pc' = pc
    /\ UNCHANGED <<config, fields, idx, cur, earlier, reconciled, completed>>

\* The same for a request of an earlier reconciliation: it leaves the
\* requests in flight.
EarlierSettled(k) ==
    /\ pc # "terminated"
    /\ earlier' = SubSeq(earlier, 1, k - 1) \o SubSeq(earlier, k + 1, Len(earlier))
    /\ \E outcome \in {"fulfilled", "rejected"} :
          IF outcome = "rejected"
          THEN pc' \in {pc, "terminated"}
          ELSE pc' = pc
    /\ UNCHANGED <<config, fields, idx, cur, calls, reconciled, completed>>

----------------------------------------------------------------------------

Next ==
    \/ Construct
    \/ DoPulls
    \/ CopyLabelsFromReferencedIssues
    \/ DoPullsReturn
    \/ PullsGetFulfilled
    \/ PullsGetRejected
    \/ \E i \in DOMAIN cur.fetches : IssuesGetFulfilled(i)
    \/ \E i \in DOMAIN cur.fetches : IssuesGetRejected(i)
    \/ ReturnOnEmptyDiff
    \/ DispatchMutations
    \/ \E k \in DOMAIN calls : AwaitedFulfilled(k)
    \/ \E k \in DOMAIN calls : AwaitedRejected(k)
    \/ \E k \in DOMAIN calls : UnawaitedSettled(k)
    \/ \E k \in DOMAIN earlier : EarlierSettled(k)

Spec == Init /\ [][Next]_vars

----------------------------------------------------------------------------
\* The label computation on its own: lines 95-120 of
\* copyLabelsFromReferencedIssues, without the awaits, started from every
\* pull-request label set and every issue-label union of up to MaxLabels
\* labels.

LabelUniverse ==
    <<"p0", "p1", "p2", "bug", "feature-request", "effort/large", "effort/small",
      "needs-review">>

NoDuplicates(q) == \A i, j \in DOMAIN q : i # j => q[i] # q[j]

\* The label sets a pull request may carry, in every insertion order
LabelSets == {q \in SeqsUpTo(Range(LabelUniverse), MaxLabels) : NoDuplicates(q)}

\* The issue-label unions.  Only membership in the union is ever read
\* (issueLabels.has), so one insertion order stands for each set.
LabelUnions ==
    {SelectSeq(LabelUniverse, LAMBDA l : l \in S) :
        S \in {T \in SUBSET Range(LabelUniverse) : Cardinality(T) <= MaxLabels}}

InitLabels ==
    /\ options \in [priorityLabels : PriorityListOptions,
                    classificationLabels : {None},
                    effortLabels : {None},
                    pullNumbers : {None}]
    /\ supplied = options.pullNumbers
    /\ payloadPull = Some(1)
    /\ issues = [n \in IssueNumbers |-> <<>>]
    /\ pc = "labels"
    /\ priorityLabels = OrElse(options.priorityLabels, <<"p0", "p1", "p2">>)
    /\ classificationLabels = OrElse(options.classificationLabels, <<"bug", "feature-request">>)
    /\ effortLabels = OrElse(options.effortLabels,
                             <<"effort/large", "effort/medium", "effort/small">>)
    /\ pullNumbers = selectedPullNumbers(options, payloadPull)
    /\ idx = 1
    /\ \E pullLabels \in LabelSets :
          cur = [NoLocals EXCEPT !.pullNumber = 1, !.pullLabels = pullLabels]
    /\ calls = <<>>
    /\ earlier = <<>>
    /\ reconciled = <<1>>
    /\ completed = <<>>

ComputeLabels ==
    /\ pc = "labels"
    /\ ~cur.computed
    /\ \E issueLabels \in LabelUnions :
          /\ cur' = Reconciled(issueLabels)
          /\ UNCHANGED earlier
          /\ calls' = IF isEmptyDiff(Reconciled(issueLabels).diff)
                      THEN <<>>
                      ELSE mutationCalls(cur.pullNumber, Reconciled(issueLabels).diff)
    /\ UNCHANGED <<config, fields, pc, idx, reconciled, completed>>

NextLabels == ComputeLabels

SpecLabels == InitLabels /\ [][NextLabels]_vars

----------------------------------------------------------------------------
\* Properties

\* The labels of a candidate list that a label set holds
Candidates(list, labels) == Range(list) \cap Range(labels)

DefaultLists ==
    /\ options.priorityLabels = None
    /\ options.classificationLabels = None
    /\ options.effortLabels = None

\* C1 as stated: once the new label set is computed it holds at most one
\* label of each of the three candidate lists.
C1_AtMostOnePerCategory ==
    cur.computed =>
        /\ Cardinality(Candidates(priorityLabels, cur.newPullLabels)) <= 1
        /\ Cardinality(Candidates(classificationLabels, cur.newPullLabels)) <= 1
        /\ Cardinality(Candidates(effortLabels, cur.newPullLabels)) <= 1

\* C1 amended: the new label set holds at most one priority label; of the
\* classification list and of the effort list it holds at most one label
\* when the issue-label union holds a label of that list, and otherwise
\* exactly the labels of that list the pull request already had.
C1_AtMostOneWhereResolved ==
    cur.computed =>
        /\ Cardinality(Candidates(priorityLabels, cur.newPullLabels)) <= 1
        /\ \A list \in {classificationLabels, effortLabels} :
              IF Candidates(list, cur.issueLabels) # {}
              THEN Cardinality(Candidates(list, cur.newPullLabels)) <= 1
              ELSE Candidates(list, cur.newPullLabels) = Candidates(list, cur.pullLabels)

\* A pull request that carried two labels of one candidate list has been
\* reconciled against issues that hold a label of that list, and one is left.
C1_Witness ==
    /\ cur.computed
    /\ \E list \in {priorityLabels, classificationLabels} :
          /\ Cardinality(Candidates(list, cur.pullLabels)) = 2
          /\ Candidates(list, cur.issueLabels) # {}
          /\ Cardinality(Candidates(list, cur.newPullLabels)) = 1

\* The label C2 describes: first entry of the priority list in the union,
\* else first entry on the pull request, else the last entry.
FirstOf(list, labels) ==
    list[CHOOSE i \in DOMAIN list :
            /\ list[i] \in Range(labels)
            /\ \A k \in 1..(i - 1) : list[k] \notin Range(labels)]

C2_Expected(list, issueLabels, pullLabels) ==
    IF Candidates(list, issueLabels) # {} THEN FirstOf(list, issueLabels)
    ELSE IF Candidates(list, pullLabels) # {} THEN FirstOf(list, pullLabels)
    ELSE list[Len(list)]

\* C2: highestPriorityLabel returns a label of the configured priority list,
\* chosen union match first, then the pull request's own label, then the
\* last entry of the list.
C2_PriorityAlwaysFromList ==
    cur.computed =>
        /\ highestPriorityLabel(cur.issueLabels, cur.pullLabels) \in Range(priorityLabels)
        /\ highestPriorityLabel(cur.issueLabels, cur.pullLabels)
               = C2_Expected(priorityLabels, cur.issueLabels, cur.pullLabels)

\* The scenario of C3: body "Fixes #5 and #7", the pull request labelled
\* {p2, feature-request}, issue 5 labelled {p0, bug}, issue 7 {effort/large},
\* default candidate lists, and the new label set computed.
C3_Scenario ==
    /\ cur.computed
    /\ DefaultLists
    /\ cur.body = Some(BodyFixesAnd)
    /\ cur.pullLabels = <<"p2", "feature-request">>
    /\ issues[5] = <<ObjectLabel("p0"), ObjectLabel("bug")>>
    /\ issues[7] = <<ObjectLabel("effort/large")>>

\* C3 as stated: the scenario yields {p0, bug, effort/large}, adds
\* [p0, bug, effort/large] and removes [p2, feature-request].
C3_EndToEndAsStated ==
    C3_Scenario =>
        /\ Range(cur.newPullLabels) = {"p0", "bug", "effort/large"}
        /\ cur.diff.adds = <<"p0", "bug", "effort/large">>
        /\ cur.diff.removes = <<"p2", "feature-request">>

\* C3 amended: "and #7" follows no closing keyword, so only issue 5 is
\* referenced; the scenario yields {p0, bug}, adds [p0, bug] and removes
\* [p2, feature-request].
C3_EndToEndOnlyKeywordReferences ==
    C3_Scenario =>
        /\ cur.references = <<5>>
        /\ Range(cur.newPullLabels) = {"p0", "bug"}
        /\ cur.diff.adds = <<"p0", "bug">>
        /\ cur.diff.removes = <<"p2", "feature-request">>

\* The scenario of C3 has run up to the requests it sends.
C3_Witness ==
    /\ C3_Scenario
    /\ pc = "mutations"
    /\ Len(calls) = 3

\* C4: a failed gateway request during one reconciliation does not keep the
\* other selected pull requests from being reconciled: when doPulls has
\* ended, in whichever way, every selected pull request has been reconciled.
C4_FailureDoesNotAbortOthers ==
    pc \in {"done", "rejected", "terminated"} => Len(reconciled) = Len(pullNumbers)

\* The selection C5 describes
C5_Expected ==
    IF supplied # None /\ supplied[1] # <<>>
    THEN supplied[1]
    ELSE payloadPull

\* C5: the pull requests doPulls reconciles are the explicit list when it is
\* non-empty, and the triggering pull request only otherwise.
C5_ExplicitListOrTrigger ==
    pc = "done" => reconciled = C5_Expected

\* C6: with an empty priority list construction fails: nothing is
\* constructed, no reconciliation starts, no priority is resolved.
C6_EmptyPriorityListFailsFast ==
    options.priorityLabels = Some(<<>>) =>
        /\ pc = "new"
        /\ reconciled = <<>>
        /\ ~cur.computed

\* C7: adds and removes of the diff are disjoint, and no addLabels request
\* names a label that a removeLabel request of the reconciliation names.
C7_AddsRemovesDisjoint ==
    /\ cur.computed => Range(cur.diff.adds) \cap Range(cur.diff.removes) = {}
    /\ \A a, r \in DOMAIN calls :
          calls[a].op = "addLabels" /\ calls[r].op = "removeLabel"
              => Range(calls[a].labels) \cap Range(calls[r].labels) = {}

\* A reconciliation has sent an addLabels request with labels and a
\* removeLabel request.
C7_Witness ==
    /\ cur.computed
    /\ cur.diff.adds # <<>>
    /\ cur.diff.removes # <<>>
    /\ \E a, r \in DOMAIN calls :
          /\ calls[a].op = "addLabels" /\ calls[a].labels # <<>>
          /\ calls[r].op = "removeLabel"

\* C8: when the new label set equals the pull request's current one the
\* diff is empty and the reconciliation sends no request.
C8_NoMutationWhenUnchanged ==
    cur.computed /\ Range(cur.newPullLabels) = Range(cur.pullLabels) =>
        /\ cur.diff.adds = <<>>
        /\ cur.diff.removes = <<>>
        /\ calls = <<>>

\* A pull request whose labels in all resolved categories already match the
\* referenced issue's has been reconciled and the reconciliation returned.
C8_Witness ==
    /\ cur.computed
    /\ cur.references # <<>>
    /\ Candidates(priorityLabels, cur.issueLabels) # {}
    /\ Candidates(classificationLabels, cur.issueLabels) # {}
    /\ Range(cur.newPullLabels) = Range(cur.pullLabels)
    /\ pc = "doPulls"
    /\ completed # <<>>

\* C9: addLabels is requested with a non-empty list of labels only.
C9_AddLabelsNonEmpty ==
    \A k \in DOMAIN calls : calls[k].op = "addLabels" => calls[k].labels # <<>>

\* C10: when copyLabelsFromReferencedIssues has returned, and when doPulls
\* has, no request of that reconciliation or of an earlier one is still
\* pending.
C10_ReturnsAfterAllRequestsSettle ==
    pc \in {"doPulls", "done"} =>
        /\ \A k \in DOMAIN calls : calls[k].status # "pending"
        /\ earlier = <<>>

====
